---- MODULE Spec2Model ----
(***************************************************************************)
(* Model of train() in autoencoder.py: the training loop with the          *)
(* memory-adaptive retry, the NaN abort and the weighted final score.      *)
(*                                                                         *)
(* One state of the model is one point between two passes of control       *)
(* through the retry loop: at the top of INIT of an attempt (pc = "init"), *)
(* at the head of the step loop (pc = "loop"), or after train was left     *)
(* (pc = "returned" by a return statement, pc = "raised" by an exception   *)
(* that left the function).  A failure is an exception raised by one of    *)
(* the calls of the attempt; the except clause runs in the same action as  *)
(* the statement that raised.                                              *)
(***************************************************************************)
EXTENDS Integers, Sequences, FiniteSets, TLC

VARIABLES
    pc,              \* control position of train
    batch_size,      \* local batch_size, a rational <<numerator, denominator>>
    i,               \* local i: NoStep (None) or the index of the step entered last
    pos,             \* next index the iterator of range(num_iters) yields
    vae,             \* binding of local vae: Unbound, None, "train" or "eval"
    vae_optim,       \* binding of local vae_optim: Unbound, None or "optimizer"
    scores,          \* local scores: the samples appended in this attempt
    weights,         \* local weights after normalisation (line 292)
    step_scores,     \* steps at which this attempt wrote a probe Score record
    terminal_scores, \* Score records written by the exits of train, whole run
    stdout,          \* lines printed by train, whole run
    attempts,        \* passes through INIT so far, the current one included
    fid_mode,        \* mode of vae at the last call of validation.vae_fid
    exit             \* which exit was taken once train was left

vars == <<pc, batch_size, i, pos, vae, vae_optim, scores, weights,
          step_scores, terminal_scores, stdout, attempts, fid_mode, exit>>

-----------------------------------------------------------------------------
(* Program constants *)

initial_batch_size == 512
num_iters == 20000
retry_cutoff == 10000
penalty == 27000

(* Bindings of the locals.  A local that was never assigned, or was        *)
(* deleted by del, is Unbound; reading it raises UnboundLocalError.  A     *)
(* model object is carried as its mode, "train" or "eval".  The value None *)
(* of the step index i is carried as NoStep.                               *)
None == "None"
Unbound == "Unbound"
NoStep == 0 - 1

(* Fixed-point scale standing for the precision of np.sqrt: sqrt(k) is     *)
(* carried as the integer part of sqrt(k) * SqrtScale.                     *)
SqrtScale == 1000

(* The step score the quantitative probe returns (FID + mse): one          *)
(* evaluation trajectory, falling as the training converges and higher     *)
(* for the smaller batches of the later attempts. *)
ProbeScore(step, attempt) == 120 - 7 * (step \div 2000) + attempt

-----------------------------------------------------------------------------
(* Rationals n/d with d a power of two: the values batch_size takes under  *)
(* true division by 2. *)

Rat(n) == <<n, 1>>

(* mutant: the batch size is doubled *)
Doubled(q) == <<2 * q[1], q[2]>>

(* mutant: the halving is forgotten *)
HalveNot(q) == q

Halve(q) == IF q[1] % 2 = 0 THEN <<q[1] \div 2, q[2]>> ELSE <<q[1], 2 * q[2]>>

(* mutant: batch_size > 1 where the code tests batch_size >= 1 *)
MoreThanOne(q) == q[1] > q[2]

(* mutant: batch_size > 0 where the code tests batch_size >= 1 *)
IsPositive(q) == q[1] > 0

AtLeastOne(q) == q[1] >= q[2]

-----------------------------------------------------------------------------
(* Failures: an exception has a class and a message. *)

OOM == [cls |-> "RuntimeError", msg |-> "CUDA out of memory"]
OtherRuntime == [cls |-> "RuntimeError", msg |-> "device-side assert"]
OtherClass == [cls |-> "ValueError", msg |-> "bad value"]

Failures == {OOM, OtherRuntime, OtherClass}

IsMemoryError(e) == e.msg = "CUDA out of memory"

MsgParams == "hyperparameters"
MsgNaN == "NaN losses, exiting..."
MsgFloor == "This configuration does not fit into memory, exiting..."
MsgHalving == "Out of memory, halving batch size..."
MsgException == "print(e)"

-----------------------------------------------------------------------------
(* The weighting of the collected samples (lines 291-293). *)

RECURSIVE SqrtSearch(_, _, _)
SqrtSearch(n, lo, hi) ==
    IF lo >= hi THEN lo
    ELSE LET mid == (lo + hi + 1) \div 2
         IN  IF mid * mid <= n THEN SqrtSearch(n, mid, hi)
                               ELSE SqrtSearch(n, lo, mid - 1)

(* np.sqrt(k) at the precision of SqrtScale *)
Sqrt(k) == SqrtSearch(k * SqrtScale * SqrtScale, 0, k * SqrtScale)

RECURSIVE SumSeq(_)
SumSeq(s) == IF s = <<>> THEN 0 ELSE Head(s) + SumSeq(Tail(s))

(* mutant: np.arange(0, n) where the code has np.arange(1, n + 1) *)
RawWeightsFromZero(n) == [k \in 1..n |-> Sqrt(k - 1)]

(* weights = np.sqrt(np.arange(1, n + 1)) *)
RawWeights(n) == [k \in 1..n |-> Sqrt(k)]

(* weights /= sum(weights): each weight becomes the rational w_k / W *)
Normalise(w) == [k \in 1..Len(w) |-> <<w[k], SumSeq(w)>>]

(* sum([w * v for w, v in zip(weights, scores)]), over the common          *)
(* denominator of the weights; the sum of the empty list is 0 *)
WeightedSum(w, sc) ==
    IF Len(w) = 0 \/ Len(sc) = 0 THEN Rat(0)
    ELSE LET n == IF Len(w) < Len(sc) THEN Len(w) ELSE Len(sc)
         IN  <<SumSeq([k \in 1..n |-> w[k][1] * sc[k].value]), w[1][2]>>

-----------------------------------------------------------------------------
(* Schedule of the probes within the step loop. *)

QualitativeDue(step) == step % (num_iters \div 20) = 0 \/ step + 1 = num_iters

QuantitativeDue(step) == step % (num_iters \div 10) = 0 \/ step + 1 = num_iters

(* mutant: samples are collected from the first step on *)
CollectsFromStart(step) == step >= 0

(* i >= num_iters / 2, with / the true division *)
Collects(step) == 2 * step >= num_iters

-----------------------------------------------------------------------------
Init ==
    /\ pc = "init"
    /\ batch_size = Rat(initial_batch_size)
    /\ i = NoStep
    /\ pos = 0
    /\ vae = Unbound
    /\ vae_optim = Unbound
    /\ scores = <<>>
    /\ weights = <<>>
    /\ step_scores = <<>>
    /\ terminal_scores = <<>>
    /\ stdout = <<MsgParams>>
    /\ attempts = 1
    /\ fid_mode = None
    /\ exit = "running"

-----------------------------------------------------------------------------
(* Leaving train, by return or by an exception, drops its frame: the model *)
(* and the optimizer are released.  The plain data locals (batch_size, i,  *)
(* scores, weights) keep in the model the value they had at the exit.      *)
Leave(how, kind) ==
    /\ pc' = how
    /\ exit' = kind
    /\ vae' = Unbound
    /\ vae_optim' = Unbound

(* An exception that is no RuntimeError is not caught by the except clause *)
Uncaught(steps_) ==
    /\ Leave("raised", "uncaught")
    /\ step_scores' = steps_
    /\ UNCHANGED <<batch_size, terminal_scores, stdout, attempts>>

(* return at line 300: past the retry cutoff, whatever the message of e *)
CutoffReturn(e, steps_) ==
    /\ Leave("returned", IF IsMemoryError(e) THEN "cutoff_memory"
                                             ELSE "cutoff_other")
    /\ step_scores' = steps_
    /\ UNCHANGED <<batch_size, terminal_scores, stdout, attempts>>

(* lines 305-308: the halved batch size is below 1 *)
FloorReturn(half, steps_) ==
    /\ Leave("returned", "floor")
    /\ batch_size' = half
    /\ stdout' = Append(stdout, MsgFloor)
    /\ terminal_scores' = Append(terminal_scores, Rat(penalty))
    /\ step_scores' = steps_
    /\ UNCHANGED attempts

(* mutant: the retry keeps the model and the optimizer of the failed       *)
(* attempt *)
RetryKeeping(half, vae_, optim_, steps_) ==
    /\ batch_size' = half
    /\ stdout' = Append(stdout, MsgHalving)
    /\ pc' = "init"
    /\ vae' = vae_
    /\ vae_optim' = optim_
    /\ attempts' = attempts + 1
    /\ step_scores' = <<>>
    /\ UNCHANGED <<terminal_scores, exit>>

(* lines 310-316, then back to the while test of line 191; reading an      *)
(* unbound local in "if vae is not None" or "if vae_optim is not None"     *)
(* raises UnboundLocalError inside the except clause *)
Retry(half, vae_, optim_, steps_) ==
    /\ batch_size' = half
    /\ stdout' = Append(stdout, MsgHalving)
    /\ UNCHANGED terminal_scores
    /\ IF vae_ = Unbound \/ optim_ = Unbound
       THEN /\ Leave("raised", "UnboundLocalError")
            /\ step_scores' = steps_
            /\ UNCHANGED attempts
       ELSE IF AtLeastOne(half)
       THEN /\ pc' = "init"
            /\ vae' = (IF vae_ # None THEN Unbound ELSE None)
            /\ vae_optim' = (IF optim_ # None THEN Unbound ELSE None)
            /\ attempts' = attempts + 1
            /\ step_scores' = <<>>
            /\ UNCHANGED exit
       ELSE /\ Leave("returned", "loop_end")
            /\ step_scores' = steps_
            /\ UNCHANGED attempts

(* lines 318-320 *)
OtherReturn(steps_) ==
    /\ Leave("returned", "other")
    /\ stdout' = Append(stdout, MsgException)
    /\ step_scores' = steps_
    /\ UNCHANGED <<batch_size, terminal_scores, attempts>>

(* mutant: an unset step index counts as past the cutoff *)
ExceptUnsetIsPast(e, i_, vae_, optim_, steps_) ==
    IF i_ = NoStep \/ i_ > retry_cutoff
    THEN CutoffReturn(e, steps_)
    ELSE IF IsMemoryError(e)
    THEN IF ~AtLeastOne(Halve(batch_size))
         THEN FloorReturn(Halve(batch_size), steps_)
         ELSE Retry(Halve(batch_size), vae_, optim_, steps_)
    ELSE OtherReturn(steps_)

(* The except clause of lines 297-320, entered with the step index i_ and  *)
(* the bindings vae_, optim_ the locals have where the exception e was     *)
(* raised. *)
Except(e, i_, vae_, optim_, steps_) ==
    IF i_ # NoStep /\ i_ > retry_cutoff
    THEN CutoffReturn(e, steps_)
    ELSE IF IsMemoryError(e)
    THEN IF ~AtLeastOne(Halve(batch_size))
         THEN FloorReturn(Halve(batch_size), steps_)
         ELSE Retry(Halve(batch_size), vae_, optim_, steps_)
    ELSE OtherReturn(steps_)

Raise(e, i_, vae_, optim_, steps_) ==
    IF e.cls = "RuntimeError"
    THEN Except(e, i_, vae_, optim_, steps_)
    ELSE Uncaught(steps_)

-----------------------------------------------------------------------------
(* INIT, lines 193-238 *)

InitPoints == {"pipeline", "model", "optimizer", "setup"}

(* binding of vae / vae_optim when a statement of INIT raises *)
VaeAtInit(point) ==
    CASE point = "pipeline" -> vae          \* lines 193-217, before line 218
      [] point = "model" -> None            \* lines 219-226
      [] point = "optimizer" -> "train"     \* line 228
      [] point = "setup" -> "train"         \* lines 230-232

OptimAtInit(point) ==
    CASE point = "pipeline" -> vae_optim
      [] point = "model" -> None
      [] point = "optimizer" -> None
      [] point = "setup" -> "optimizer"

(* mutant: INIT keeps the score sequence of the attempt before *)
InitOKKeepingScores ==
    /\ pc = "init"
    /\ pc' = "loop"
    /\ vae' = "train"
    /\ vae_optim' = "optimizer"
    /\ pos' = 0
    /\ UNCHANGED <<batch_size, i, scores, weights, step_scores,
                   terminal_scores, stdout, attempts, fid_mode, exit>>

(* mutant: INIT resets the step index to None *)
InitOKResettingI ==
    /\ pc = "init"
    /\ pc' = "loop"
    /\ vae' = "train"
    /\ vae_optim' = "optimizer"
    /\ scores' = <<>>
    /\ pos' = 0
    /\ i' = NoStep
    /\ UNCHANGED <<batch_size, weights, step_scores, terminal_scores,
                   stdout, attempts, fid_mode, exit>>

InitOK ==
    /\ pc = "init"
    /\ pc' = "loop"
    /\ vae' = "train"
    /\ vae_optim' = "optimizer"
    /\ scores' = <<>>
    /\ pos' = 0
    /\ UNCHANGED <<batch_size, i, weights, step_scores, terminal_scores,
                   stdout, attempts, fid_mode, exit>>

InitRaise(e, point) ==
    /\ pc = "init"
    /\ Raise(e, i, VaeAtInit(point), OptimAtInit(point), step_scores)
    /\ UNCHANGED <<i, pos, scores, weights, fid_mode>>

(* Only the retry reads the bindings of vae and vae_optim, and Leave drops  *)
(* them: a failure that is not retried leaves the same state wherever INIT *)
(* raises it, so it is raised at one point.                                *)
InitPointsOf(e) == IF IsMemoryError(e) THEN InitPoints ELSE {"pipeline"}

InitFail == \E e \in Failures : \E point \in InitPointsOf(e) : InitRaise(e, point)

-----------------------------------------------------------------------------
(* One pass through the body of the step loop, lines 239-289 *)

(* Where a statement of the step can raise: in the body (lines 240-258),   *)
(* in a probe that is due, and at the NaN test of line 286.  On a step     *)
(* without quantitative probe a failure at line 286 leaves the same state  *)
(* as one in the body, which stands for it.                                *)
StepPoints(step) ==
    {"body"}
        \cup (IF QualitativeDue(step) THEN {"qualitative"} ELSE {})
        \cup (IF QuantitativeDue(step) THEN {"quantitative", "nancheck"} ELSE {})

ValuesAt(step) == IF QuantitativeDue(step) THEN {ProbeScore(step, attempts)} ELSE {0}

(* mode of the model once the qualitative probe of the step was passed:   *)
(* vae.train() of line 240, then vae.eval() of line 262 if the probe is    *)
(* due *)
VaeAfterProbes(step) == IF QualitativeDue(step) THEN "eval" ELSE "train"

(* mode in which validation.vae_fid returns a model it was given in mode   *)
(* m: the quantitative probe restores the training mode *)
VaeAfterFid(m) == "train"

(* mode of the model at the end of the step *)
VaeAfterStep(step) ==
    IF QuantitativeDue(step) THEN VaeAfterFid(VaeAfterProbes(step))
                             ELSE VaeAfterProbes(step)

(* the mode in which line 276 hands the model to validation.vae_fid *)
FidModeAfter(step) ==
    IF QuantitativeDue(step) THEN VaeAfterProbes(step) ELSE fid_mode

(* Score records of the attempt once the quantitative probe was passed *)
StepScoresAfter(step) ==
    IF QuantitativeDue(step) THEN Append(step_scores, step) ELSE step_scores

Sample(step, v) == [step |-> step, attempt |-> attempts, value |-> v]

ScoresAfter(step, v) ==
    IF QuantitativeDue(step) /\ Collects(step)
    THEN Append(scores, Sample(step, v))
    ELSE scores

StepOK ==
    /\ pc = "loop"
    /\ pos < num_iters
    /\ \E v \in ValuesAt(pos) :
          /\ i' = pos
          /\ pos' = pos + 1
          /\ vae' = VaeAfterStep(pos)
          /\ fid_mode' = FidModeAfter(pos)
          /\ step_scores' = StepScoresAfter(pos)
          /\ scores' = ScoresAfter(pos, v)
    /\ UNCHANGED <<pc, batch_size, vae_optim, weights, terminal_scores, stdout,
                   attempts, exit>>

(* the loss of the step is NaN: the step and its probes run, then lines    *)
(* 286-289 *)
StepNaN ==
    /\ pc = "loop"
    /\ pos < num_iters
    /\ \E v \in ValuesAt(pos) :
          /\ i' = pos
          /\ pos' = pos + 1
          /\ fid_mode' = FidModeAfter(pos)
          /\ step_scores' = StepScoresAfter(pos)
          /\ scores' = ScoresAfter(pos, v)
    /\ stdout' = Append(stdout, MsgNaN)
    /\ terminal_scores' = Append(terminal_scores, Rat(penalty))
    /\ Leave("returned", "nan")
    /\ UNCHANGED <<batch_size, weights, attempts>>

(* a statement of the step raises; the loss of a step that raises is never *)
(* read *)
StepRaise(e, point) ==
    /\ pc = "loop"
    /\ pos < num_iters
    /\ point \in StepPoints(pos)
    /\ i' = pos
    /\ pos' = pos + 1
    /\ UNCHANGED weights
    /\ CASE point = "body" ->                \* lines 240-258
               /\ UNCHANGED <<scores, fid_mode>>
               /\ Raise(e, pos, "train", vae_optim, step_scores)
          [] point = "qualitative" ->         \* lines 262-272
               /\ UNCHANGED <<scores, fid_mode>>
               /\ Raise(e, pos, "eval", vae_optim, step_scores)
          [] point = "quantitative" ->        \* lines 276-279
               /\ UNCHANGED scores
               /\ fid_mode' = FidModeAfter(pos)
               /\ Raise(e, pos, VaeAfterProbes(pos), vae_optim, step_scores)
          [] point = "nancheck" ->            \* line 286
               /\ \E v \in ValuesAt(pos) : scores' = ScoresAfter(pos, v)
               /\ fid_mode' = FidModeAfter(pos)
               /\ Raise(e, pos, VaeAfterStep(pos), vae_optim,
                        StepScoresAfter(pos))

StepFail ==
    \E e \in Failures, point \in {"body", "qualitative", "quantitative", "nancheck"} :
        StepRaise(e, point)

(* the step loop is exhausted: lines 291-295 *)
Finish ==
    /\ pc = "loop"
    /\ pos = num_iters
    /\ weights' = Normalise(RawWeights(Len(scores)))
    /\ terminal_scores' = Append(terminal_scores, WeightedSum(weights', scores))
    /\ Leave("returned", "success")
    /\ UNCHANGED <<batch_size, i, pos, scores, step_scores, stdout, attempts,
                   fid_mode>>

Next == InitOK \/ InitFail \/ StepOK \/ StepNaN \/ StepFail \/ Finish

Spec == Init /\ [][Next]_vars

(* train is sequential code: it takes its next step whenever it has one *)
FairSpec == Spec /\ WF_vars(Next)

-----------------------------------------------------------------------------
(* Vocabulary of the properties *)

Running == pc \in {"init", "loop"}

Left == pc \in {"returned", "raised"}

Penalty == Rat(penalty)

RECURSIVE Pow2(_)
Pow2(n) == IF n <= 0 THEN 1 ELSE 2 * Pow2(n - 1)

Last(s) == s[Len(s)]

(* batch_size = initial_batch_size / 2^k, as an equation between integers *)
IsInitialOver2To(k) ==
    batch_size[1] * Pow2(k) = initial_batch_size * batch_size[2]

BelowOne == batch_size[1] < batch_size[2]

-----------------------------------------------------------------------------
(* C1: every return of train on the success path, the NaN abort or a       *)
(* memory abort (batch-size floor, or a memory failure past the retry      *)
(* cutoff) has written exactly one terminal Score record.                  *)
C1_ExactlyOneFinalScore ==
    (pc = "returned" /\ exit \in {"success", "nan", "floor", "cutoff_memory"})
        => Len(terminal_scores) = 1

(* C2: when the loss of step i is NaN, the only Score record of that step  *)
(* is the penalty: the step wrote no probe Score record, collected no      *)
(* sample, and the run ended there with the penalty as its terminal score. *)
C2_NaNEmitsOnlyPenalty ==
    exit = "nan" =>
        /\ pc = "returned"
        /\ terminal_scores = <<Penalty>>
        /\ \A k \in DOMAIN step_scores : step_scores[k] # i
        /\ \A k \in DOMAIN scores : scores[k].step < i

(* C3: a memory failure raised at a step index above the retry cutoff ends *)
(* the run without a retry and without halving batch_size, and the penalty *)
(* score is reported.                                                      *)
C3_CutoffReportsPenalty ==
    exit = "cutoff_memory" =>
        /\ pc = "returned"
        /\ i > retry_cutoff
        /\ IsInitialOver2To(attempts - 1)
        /\ terminal_scores = <<Penalty>>

(* C4: while train runs, batch_size is 512 / 2^k after k retries; once     *)
(* halving yields a value below 1 train has returned through the floor     *)
(* exit with the penalty score, and no further attempt was started.        *)
C4_BatchSizeHalving ==
    /\ Running => IsInitialOver2To(attempts - 1) /\ ~BelowOne
    /\ BelowOne =>
          /\ pc = "returned"
          /\ exit = "floor"
          /\ IsInitialOver2To(attempts)
          /\ terminal_scores = <<Penalty>>
    /\ exit = "floor" => BelowOne

C4_Witness == exit = "floor" /\ attempts = 10 /\ batch_size = <<1, 2>>

-----------------------------------------------------------------------------
(* C5: train terminates.  Under the fairness of sequential code it         *)
(* eventually leaves; an attempt never takes more than num_iters steps;    *)
(* and every raised failure either ends the run or strictly decreases      *)
(* batch_size.                                                             *)
Smaller(p, q) == p[1] * q[2] < q[1] * p[2]

(* a step of train that neither leaves nor retries moves on within the     *)
(* attempt: from INIT into the step loop, or one step further in the loop  *)
Advances ==
    /\ batch_size' = batch_size
    /\ pc' = "loop"
    /\ \/ pc = "init" /\ pos' = 0
       \/ pc = "loop" /\ pos' = pos + 1 /\ pos' <= num_iters

Retries == pc' = "init" /\ Smaller(batch_size', batch_size)

C5_Terminates ==
    /\ <>Left
    /\ [](pos <= num_iters /\ (i # NoStep => i < num_iters))
    /\ [][Left' \/ Retries \/ Advances]_vars

(* nine retries, then a full attempt of num_iters steps at batch size 1 *)
C5_Witness ==
    /\ pc = "returned"
    /\ exit = "success"
    /\ attempts = 10
    /\ pos = num_iters

-----------------------------------------------------------------------------
RECURSIVE Log2(_)
Log2(n) == IF n <= 1 THEN 0 ELSE 1 + Log2(n \div 2)

(* C6 as stated: the number of attempts never exceeds                      *)
(* log2(initial_batch_size) = 9.                                           *)
C6_AtMostLog2Attempts == attempts <= Log2(initial_batch_size)

(* C6 amended: the number of attempts never exceeds                        *)
(* log2(initial_batch_size) + 1 = 10, one attempt for each of the batch    *)
(* sizes 512, 256, ..., 1.                                                 *)
C6_AtMostLog2PlusOneAttempts == attempts <= Log2(initial_batch_size) + 1

C6_Witness == pc = "loop" /\ attempts = 10 /\ batch_size = <<1, 1>>

-----------------------------------------------------------------------------
(* C7: no failure raised inside an attempt leaves train as an exception:   *)
(* train always returns normally.                                          *)
C7_NothingRethrown == pc # "raised"

-----------------------------------------------------------------------------
RECURSIVE MinValue(_)
MinValue(sc) ==
    IF Len(sc) = 1 THEN sc[1].value
    ELSE LET m == MinValue(Tail(sc))
         IN  IF sc[1].value < m THEN sc[1].value ELSE m

RECURSIVE MaxValue(_)
MaxValue(sc) ==
    IF Len(sc) = 1 THEN sc[1].value
    ELSE LET m == MaxValue(Tail(sc))
         IN  IF sc[1].value > m THEN sc[1].value ELSE m

(* C8: on success the FinalScore is the combination sum_k w_k * s_k of the *)
(* collected samples in collection order; the weights are w_k = sqrt(k) /  *)
(* sum_j sqrt(j) (at the precision of SqrtScale), they sum to 1 and do not *)
(* decrease; the FinalScore lies between the least and the greatest        *)
(* sample; and every sample was collected at a step i >= num_iters / 2 of  *)
(* the attempt that succeeded.                                             *)
C8_FinalScoreConvex ==
    exit = "success" =>
        LET n == Len(scores)
            W == weights[1][2]
            w(k) == weights[k][1]
        IN  /\ n > 0
            /\ Len(weights) = n
            /\ W > 0
            /\ \A k \in 1..n : weights[k][2] = W /\ w(k) >= 0
            /\ \A k \in 1..n :
                  /\ w(k) * w(k) <= k * SqrtScale * SqrtScale
                  /\ k * SqrtScale * SqrtScale < (w(k) + 1) * (w(k) + 1)
            /\ SumSeq([k \in 1..n |-> w(k)]) = W
            /\ \A k \in 1..(n - 1) : w(k) <= w(k + 1)
            /\ terminal_scores =
                  << <<SumSeq([k \in 1..n |-> w(k) * scores[k].value]), W>> >>
            /\ MinValue(scores) * W <= terminal_scores[1][1]
            /\ terminal_scores[1][1] <= MaxValue(scores) * W
            /\ \A k \in 1..n :
                  /\ 2 * scores[k].step >= num_iters
                  /\ scores[k].attempt = attempts
            /\ \A k \in 1..(n - 1) : scores[k].step < scores[k + 1].step

C8_Witness ==
    /\ exit = "success"
    /\ attempts = 3
    /\ Len(scores) = 6
    /\ MinValue(scores) < MaxValue(scores)

-----------------------------------------------------------------------------
(* C9: a memory failure raised by a step whose index is below the retry    *)
(* cutoff, while half the batch size is still >= 1, makes the loop retry:  *)
(* the model and the optimizer are released, batch_size is halved and      *)
(* control is back at INIT; INIT then builds a fresh model and optimizer    *)
(* and empties the scores, and the first step of the attempt has index 0;  *)
(* from every running state a failure-free step is possible, and each      *)
(* failure-free step keeps batch_size and moves on towards SUCCESS.        *)
HalfOf(p, q) == 2 * p[1] * q[2] = q[1] * p[2]

C9_OOMRetry ==
    /\ [][\A point \in {"body", "qualitative", "quantitative", "nancheck"} :
             (/\ pc = "loop"
              /\ pos < retry_cutoff
              /\ 2 * batch_size[2] <= batch_size[1]
              /\ StepRaise(OOM, point))
                => /\ pc' = "init"
                   /\ vae' = Unbound
                   /\ vae_optim' = Unbound
                   /\ HalfOf(batch_size', batch_size)
                   /\ attempts' = attempts + 1
                   /\ terminal_scores' = terminal_scores]_vars
    /\ [][(pc = "init" /\ pc' = "loop")
             => /\ vae' = "train"
                /\ vae_optim' = "optimizer"
                /\ scores' = <<>>
                /\ pos' = 0
                /\ batch_size' = batch_size]_vars
    /\ [][(pc = "loop" /\ pos = 0) => i' = 0]_vars
    /\ [](Running => ENABLED (InitOK \/ StepOK \/ Finish))
    /\ [][(InitOK \/ StepOK \/ Finish)
             => /\ batch_size' = batch_size
                /\ Advances \/ exit' = "success"]_vars

(* failures at batch sizes 512 and 256, none at 128: two retries and a     *)
(* completed run *)
C9_Witness ==
    /\ exit = "success"
    /\ attempts = 3
    /\ batch_size = <<128, 1>>
    /\ stdout = <<MsgParams, MsgHalving, MsgHalving>>

-----------------------------------------------------------------------------
(* C10: every abort of train (NaN, batch-size floor, retry cutoff,         *)
(* non-memory failure) has printed a diagnostic line before train returns: *)
(* the last line on stdout is the diagnostic of the abort.                 *)
C10_AbortPrintsDiagnostic ==
    (pc = "returned"
        /\ exit \in {"nan", "floor", "cutoff_memory", "cutoff_other", "other"})
        => Last(stdout) \in {MsgNaN, MsgFloor, MsgException}

-----------------------------------------------------------------------------
(* The steps the claims name for the quantitative probe and for the        *)
(* collection of samples.                                                  *)
ProbeSteps == <<0, 2000, 4000, 6000, 8000, 10000, 12000, 14000, 16000, 18000,
                19999>>

SampleSteps == <<10000, 12000, 14000, 16000, 18000, 19999>>

StepsBelow(s, n) == SelectSeq(s, LAMBDA x : x < n)

StepsOf(sc) == [k \in DOMAIN sc |-> sc[k].step]

(* C11: every element of the score sequence is the step score the          *)
(* quantitative probe produced at a step i >= 10000; the quantitative      *)
(* probe has run exactly at the steps of the attempt with i % 2000 = 0 or  *)
(* i = 19999, and the samples are those of the probe steps from 10000 on,  *)
(* so an attempt that completed holds the six samples of steps 10000,      *)
(* 12000, 14000, 16000, 18000 and 19999, in that order.                    *)
C11_SamplesFromSecondHalf ==
    /\ \A k \in DOMAIN scores :
          /\ scores[k].step >= 10000
          /\ scores[k].step % 2000 = 0 \/ scores[k].step = 19999
          /\ scores[k].value = ProbeScore(scores[k].step, scores[k].attempt)
    /\ pc = "loop" =>
          /\ step_scores = StepsBelow(ProbeSteps, pos)
          /\ StepsOf(scores) = StepsBelow(SampleSteps, pos)
    /\ exit = "success" =>
          /\ step_scores = ProbeSteps
          /\ StepsOf(scores) = SampleSteps

C11_Witness ==
    /\ exit = "success"
    /\ attempts = 1
    /\ StepsOf(scores) = SampleSteps

-----------------------------------------------------------------------------
(* C12: a RuntimeError whose message is not the memory message, raised at  *)
(* any step index, ends the run as OTHER_FATAL: the failure was printed,   *)
(* no retry was started, batch_size is the one of the attempt that failed, *)
(* and no terminal Score record was written.                               *)
C12_OtherFailureLoggedNoRetry ==
    exit \in {"other", "cutoff_other"} =>
        /\ pc = "returned"
        /\ Last(stdout) = MsgException
        /\ IsInitialOver2To(attempts - 1)
        /\ terminal_scores = <<>>

-----------------------------------------------------------------------------
(* C13 as stated: in every state of train batch_size is a positive integer *)
(* <= 512; it never increases; once it is below 1 train has returned with  *)
(* the penalty score.                                                      *)
C13_BatchSizePositiveInteger ==
    /\ [](batch_size[2] = 1 /\ batch_size[1] >= 1
             /\ batch_size[1] <= initial_batch_size)
    /\ [][~Smaller(batch_size, batch_size')]_vars
    /\ [](BelowOne => pc = "returned" /\ terminal_scores = <<Penalty>>)

(* C13 amended: in every state of train batch_size is positive and <= 512, *)
(* and it never increases; it is an integer in every state in which an     *)
(* attempt runs; the only value that is no integer is 1/2, the result of   *)
(* halving 1, and in the states that hold it train has returned through    *)
(* the floor exit with the penalty score.                                  *)
C13_BatchSizePositive ==
    /\ [](batch_size[1] > 0 /\ batch_size[2] > 0
             /\ batch_size[1] <= initial_batch_size * batch_size[2])
    /\ [][~Smaller(batch_size, batch_size')]_vars
    /\ [](Running => batch_size[2] = 1 /\ batch_size[1] >= 1)
    /\ [](batch_size[2] # 1 =>
             /\ batch_size = <<1, 2>>
             /\ pc = "returned"
             /\ exit = "floor"
             /\ terminal_scores = <<Penalty>>)

(* ten memory failures: nine halvings that were retried and the one that   *)
(* took batch_size below 1 *)
C13_Witness ==
    /\ pc = "returned"
    /\ BelowOne
    /\ Len(stdout) = 11
    /\ Last(stdout) = MsgFloor

-----------------------------------------------------------------------------
(* C14 as stated: the step index i, once set, stays within                 *)
(* 0..num_iters-1 and never decreases over the whole run; it is unknown    *)
(* only before the first step after the start of train.                    *)
C14_StepIndexMonotoneRun ==
    /\ [](i # NoStep => i >= 0 /\ i <= num_iters - 1)
    /\ [][i # NoStep => i' >= i]_vars
    /\ [][i # NoStep => i' # NoStep]_vars
    /\ [](i = NoStep => pos = 0)

(* C14 amended: the step index i, once set, stays within 0..num_iters-1    *)
(* and is never unknown again; it is unknown only while no step was        *)
(* entered since the start of train; within an attempt it is the index of  *)
(* the step entered last and goes up by one with each step; it changes     *)
(* nowhere else, so INIT of a retry still holds the index of the step that *)
(* failed, and the first step of every attempt sets it to 0.               *)
C14_StepIndexMonotoneAttempt ==
    /\ [](i # NoStep => i >= 0 /\ i <= num_iters - 1)
    /\ [][i # NoStep => i' # NoStep]_vars
    /\ [](i = NoStep => pos = 0)
    /\ []((pc = "loop" /\ pos > 0) => i = pos - 1)
    /\ [][i' # i => (pc = "loop" /\ i' = pos /\ pos' = pos + 1)]_vars
    /\ [][(pc = "loop" /\ pos' # pos) => i' = pos]_vars

(* one retry, then a complete attempt whose steps ran from 0 to            *)
(* num_iters - 1                                                           *)
C14_Witness ==
    /\ exit = "success"
    /\ attempts = 2
    /\ i = num_iters - 1
    /\ scores[1].attempt = 2

-----------------------------------------------------------------------------
(* C15: the probes leave the model in training mode.  Whenever the        *)
(* quantitative probe was entered, the model handed to it was in training  *)
(* mode, the qualitative probe of the same step having restored it; and    *)
(* the model is in training mode when the step loop is exhausted after the *)
(* final step.                                                             *)
C15_ProbesRestoreTrainingMode ==
    /\ fid_mode \in {None, "train"}
    /\ (pc = "loop" /\ pos = num_iters) => vae = "train"

-----------------------------------------------------------------------------
(* C16: the handler decides between retry and abort on the step index i    *)
(* shared by all attempts.  INIT does not reset i, and a retry leaves in i *)
(* the index of the step that failed, so the handler of a failure raised   *)
(* during INIT of a retried attempt reads the index of an earlier attempt. *)
(* In every state of INIT i is unset or <= 10000, so no failure raised     *)
(* during INIT leaves train through the cutoff return: a memory failure    *)
(* there is retried, or ends at the batch-size floor.                      *)
C16_InitFailureReadsStaleIndex ==
    /\ [](pc = "init" => (i = NoStep \/ i <= retry_cutoff))
    /\ [][pc = "init" => i' = i]_vars
    /\ [][(pc = "loop" /\ pc' = "init") => i' = pos]_vars
    /\ [][(pc = "init" /\ Left')
             => exit' \in {"floor", "other", "uncaught", "UnboundLocalError"}]_vars
    /\ [][(pc = "init" /\ \E point \in InitPoints : InitRaise(OOM, point))
             => \/ pc' = "init" /\ HalfOf(batch_size', batch_size)
                \/ exit' \in {"floor", "UnboundLocalError"}]_vars

(* the first attempt failed at step 10000 and was retried; the model       *)
(* constructor of the second attempt raised a memory failure, which the    *)
(* handler, reading i = 10000, retried as well                             *)
C16_Witness ==
    /\ pc = "init"
    /\ attempts = 3
    /\ i = retry_cutoff
    /\ vae = None
    /\ batch_size = <<128, 1>>

-----------------------------------------------------------------------------
(* C17: INIT empties the score sequence.  A sample is left over from an    *)
(* attempt that failed and was retried only when the failure came at step  *)
(* 10000 after the sample of that step was appended; the step loop of the  *)
(* next attempt starts without it, every sample held in the step loop was  *)
(* appended by the attempt in progress, and the FinalScore on success is   *)
(* the weighted sum over samples of the attempt that completed.            *)
C17_StaleSamplesDiscarded ==
    /\ [][(pc = "init" /\ pc' = "loop") => scores' = <<>>]_vars
    /\ []((pc = "init" /\ scores # <<>>) =>
             /\ Len(scores) = 1
             /\ scores[1].step = 10000
             /\ scores[1].attempt < attempts)
    /\ [](pc = "loop" => \A k \in DOMAIN scores : scores[k].attempt = attempts)
    /\ [](exit = "success" =>
             /\ \A k \in DOMAIN scores : scores[k].attempt = attempts
             /\ terminal_scores = <<WeightedSum(weights, scores)>>)

(* the first attempt appended the sample of step 10000, failed at line 286 *)
(* of that step and was retried: INIT of the second attempt starts with    *)
(* the sample still in the list                                            *)
C17_Witness ==
    /\ pc = "init"
    /\ attempts = 2
    /\ i = 10000
    /\ Len(scores) = 1
    /\ scores[1].attempt = 1

-----------------------------------------------------------------------------
(* C18: the per-probe step scores and the terminal score go to the same    *)
(* Score channel, the terminal score being written by the statement that   *)
(* precedes the return.  Whenever train has returned on the success path,  *)
(* the NaN abort or a memory abort, the last record of the channel is the  *)
(* terminal score of the run: the weighted FinalScore on success, 27000 on *)
(* an abort.  A run without failure wrote the 11 step scores of steps 0,   *)
(* 2000, ..., 18000, 19999 before its single FinalScore record.            *)
C18_TerminalScoreLast ==
    /\ (pc = "returned" /\ exit = "success") =>
          terminal_scores = <<WeightedSum(weights, scores)>>
    /\ (pc = "returned" /\ exit \in {"nan", "floor", "cutoff_memory"}) =>
          terminal_scores = <<Penalty>>
    /\ (pc = "returned" /\ exit = "success" /\ attempts = 1) =>
          /\ Len(step_scores) = 11
          /\ step_scores = ProbeSteps

====
